---- MODULE Spec2Model ----
(***************************************************************************)
(* A model of rimca-core's vanilla download planner (collect_urls,         *)
(* process_natives, create_state), the download sequence (download,        *)
(* spawn_thread with its native-cleanup pass) and the launch-argument      *)
(* builders (get_game_options, get_classpath).                             *)
(*                                                                         *)
(* Paths are sequences of path components.  A digest is a sequence of two  *)
(* chunks, the first being its first two hex characters (hash[0..2]).  A   *)
(* file system maps each path to the digest of the file stored there, or   *)
(* to Absent.                                                              *)
(***************************************************************************)
EXTENDS Integers, Sequences, FiniteSets, TLC

VARIABLES
    os,         \* std::env::consts::OS of the running build
    version,    \* Vanilla.version.id, the resolved version's identifier
    meta,       \* Vanilla.meta, the manifest the resolver loaded
    assets,     \* what fetching and parsing the asset index yields
    fs,         \* files outside the natives directory: path -> digest
    natives,    \* natives directory: "missing", or entry name -> kind
    state,      \* Instance.state.components (in memory)
    disk,       \* the state file persisted in the instance root
    plan,       \* the Result of collect_urls
    tasks,      \* fetch engine: status of each task of the batch
    snap,       \* natives directory and fs as they were when cleanup began
    cleaned,    \* entries the cleanup pass has visited
    result,     \* what the running operation returned to its caller
    pc,         \* position of the running operation
    inp,        \* inputs of the launch-argument builders
    out         \* output of the launch-argument builders

vars == <<os, version, meta, assets, fs, natives, state, disk, plan, tasks,
          snap, cleaned, result, pc, inp, out>>

----------------------------------------------------------------------------
(* Bounds of the model *)

MaxLibs == 2

MaxPieces == 3

----------------------------------------------------------------------------
(* Data *)

Absent == <<>>

OsTypes == {"windows", "linux", "macos", "freebsd"}

VersionIds == {"1.16.4", "1.16.3"}

Digests == {<<"aa", "11">>, <<"aa", "22">>, <<"bb", "33">>}

Hex(hash) == hash[1] \o hash[2]

\* &hash.hash[0..2]
hash_head(hash) == hash[1]

AssetKeys == {"icons/icon.png", "lang/en.lang"}

KeyOrder == <<"icons/icon.png", "lang/en.lang">>

RECURSIVE SeqToSet(_)
SeqToSet(s) == IF s = <<>> THEN {} ELSE {Head(s)} \cup SeqToSet(Tail(s))

\* Paths::get(role)
paths_get(role) == <<role>>

NoArtifact == [some |-> FALSE, path |-> <<>>, sha1 |-> Absent, url |-> ""]

Artifact(p, d) ==
    [some |-> TRUE, path |-> p, sha1 |-> d,
     url |-> "https://libraries.minecraft.net/" \o p[Len(p)]]

NoNatives == [windows |-> "", linux |-> "", macos |-> ""]

NoClassifiers == [some |-> FALSE, keys |-> {}]

Classifiers(ks) == [some |-> TRUE, keys |-> ks]

\* Rule { action, os: Option<Os { name: Option<String> }> }; a name of ""
\* stands for None
NoOs == [some |-> FALSE, name |-> ""]

Os(name) == [some |-> TRUE, name |-> name]

Rule(action, o) == [action |-> action, os |-> o]

Lib(name, artifact, nat, cls, rules) ==
    [name |-> name,
     downloads |-> [artifact |-> artifact, classifiers |-> cls],
     natives |-> nat,
     rules |-> rules]

ArtA == Artifact(<<"org", "lwjgl.jar">>, <<"aa", "11">>)

ArtB == Artifact(<<"com", "guava.jar">>, <<"bb", "33">>)

\* Library entries the planner is run on: plain artifacts, an artifact with
\* natives (a manifest may list such a library next to its plain entry, with
\* the same artifact path), a natives-only entry, and two malformed ones.
PlanLibraries ==
    { Lib("lwjgl", ArtA, NoNatives, NoClassifiers, <<>>),
      Lib("guava", ArtB, NoNatives, NoClassifiers, <<>>),
      Lib("lwjgl", ArtA,
          [windows |-> "natives-windows", linux |-> "natives-linux", macos |-> ""],
          Classifiers({"natives-windows", "natives-linux"}), <<>>),
      Lib("jinput-platform", NoArtifact,
          [windows |-> "natives-windows", linux |-> "", macos |-> "natives-osx"],
          Classifiers({"natives-windows", "natives-osx"}), <<>>),
      Lib("text2speech", NoArtifact,
          [windows |-> "natives-windows", linux |-> "", macos |-> ""],
          NoClassifiers, <<>>),
      Lib("ntdll", NoArtifact,
          [windows |-> "natives-windows", linux |-> "", macos |-> ""],
          Classifiers({"natives-linux"}), <<>>) }

SeqsUpTo(S, n) == UNION {[1..k -> S] : k \in 0..n}

\* The manifest: Meta { id, downloads.client, libraries, asset_index, .. }
Meta(id, libs, assetId) ==
    [id |-> id,
     downloads |-> [client |-> [sha1 |-> <<"aa", "22">>,
                                url |-> "https://launcher.mojang.com/client.jar"]],
     libraries |-> libs,
     asset_index |-> [id |-> assetId,
                      url |-> "https://launchermeta.mojang.com/" \o assetId \o ".json"]]

AssetIds == {"pre-1.6", "legacy", "1.16"}

\* Outcomes of downloading and parsing the asset index: a failure, or
\* Assets { objects: key -> hash }.
AssetIndexFailed == [ok |-> FALSE, objects |-> <<>>]

AssetsOf(objs) == [ok |-> TRUE, objects |-> objs]

----------------------------------------------------------------------------
(* Paths *)

Join(a, b) == a \o b

jar_name(id) == "minecraft-" \o id \o "-client.jar"

client_path(id) ==
    Join(paths_get("libraries"), <<"com", "mojang", "minecraft", id, jar_name(id)>>)

library_path(artifact) == Join(paths_get("libraries"), artifact.path)

legacy_asset_path(key) == Join(paths_get("instance"), <<"resources", key>>)

modern_asset_path(hash) ==
    Join(paths_get("assets"), <<"objects", hash_head(hash), Hex(hash)>>)

asset_index_path(asset_id) ==
    Join(paths_get("assets"), <<"indexes", asset_id \o ".json">>)

asset_url(hash) ==
    "https://resources.download.minecraft.net/" \o hash_head(hash) \o "/" \o Hex(hash)

FsPaths ==
    {client_path(id) : id \in VersionIds}
    \cup {library_path(a) : a \in {ArtA, ArtB}}
    \cup {legacy_asset_path(k) : k \in AssetKeys}
    \cup {modern_asset_path(h) : h \in Digests}
    \cup {asset_index_path(a) : a \in AssetIds}

IndexDigest == <<"1d", "ex">>

----------------------------------------------------------------------------
(* Integrity verifier (crate::verify, not among the sources) *)

path_exists(f, path) == f[path] # Absent

\* false when the path does not exist, otherwise whether the file's digest
\* is the expected one
is_file_valid(f, path, sha1) == f[path] # Absent /\ f[path] = sha1

----------------------------------------------------------------------------
(* Download planner *)

Retries == 5

\* Result<Downloads, DownloadError>
Ok(dls) == [ok |-> TRUE, err |-> "", downloads |-> dls, retries |-> Retries]

Err(e) == [ok |-> FALSE, err |-> e, downloads |-> <<>>, retries |-> Retries]

Download(url, path, unzip) == [url |-> url, path |-> path, unzip |-> unzip]

process_natives(key_option, natives_dir, lib, dls) ==
    IF key_option = "" THEN Ok(dls)
    ELSE IF ~lib.downloads.classifiers.some THEN Err("LibraryNoClassifiers")
    ELSE IF key_option \in lib.downloads.classifiers.keys
         THEN Ok(Append(dls, Download("https://libraries.minecraft.net/"
                                        \o lib.name \o "-" \o key_option \o ".jar",
                                      natives_dir, TRUE)))
         ELSE Ok(dls)

\* plan_library with the exists/digest test of the artifact dropped
plan_library_unchecked(f, os_type, lib, dls) ==
    LET artifact == lib.downloads.artifact
        dls1     == IF artifact.some
                    THEN Append(dls, Download(artifact.url, library_path(artifact), FALSE))
                    ELSE dls
        natives_dir == paths_get("natives")
    IN  CASE os_type = "windows" -> process_natives(lib.natives.windows, natives_dir, lib, dls1)
          [] os_type = "linux"   -> process_natives(lib.natives.linux, natives_dir, lib, dls1)
          [] os_type = "macos"   -> process_natives(lib.natives.macos, natives_dir, lib, dls1)
          [] OTHER               -> Ok(dls1)

\* the body of the loop over meta.libraries
plan_library(f, os_type, lib, dls) ==
    LET artifact == lib.downloads.artifact
        path     == library_path(artifact)
        dls1     == IF artifact.some
                       /\ (~path_exists(f, path) \/ ~is_file_valid(f, path, artifact.sha1))
                    THEN Append(dls, Download(artifact.url, path, FALSE))
                    ELSE dls
        natives_dir == paths_get("natives")
    IN  CASE os_type = "windows" -> process_natives(lib.natives.windows, natives_dir, lib, dls1)
          [] os_type = "linux"   -> process_natives(lib.natives.linux, natives_dir, lib, dls1)
          [] os_type = "macos"   -> process_natives(lib.natives.macos, natives_dir, lib, dls1)
          [] OTHER               -> Ok(dls1)

RECURSIVE plan_libraries(_, _, _, _)
plan_libraries(f, os_type, libs, dls) ==
    IF libs = <<>> THEN Ok(dls)
    ELSE LET r == plan_library(f, os_type, Head(libs), dls)
         IN  IF r.ok THEN plan_libraries(f, os_type, Tail(libs), r.downloads) ELSE r

\* the keys of assets.objects, in iteration order
ObjectKeys(objects) == SelectSeq(KeyOrder, LAMBDA k : k \in DOMAIN objects)

RECURSIVE plan_legacy_assets(_, _, _, _)
plan_legacy_assets(f, objects, keys, dls) ==
    IF keys = <<>> THEN dls
    ELSE LET key  == Head(keys)
             hash == objects[key]
             path == legacy_asset_path(key)
         IN  plan_legacy_assets(f, objects, Tail(keys),
                 IF ~path_exists(f, path) /\ is_file_valid(f, path, hash)
                 THEN Append(dls, Download(asset_url(hash), path, FALSE))
                 ELSE dls)

RECURSIVE plan_modern_assets(_, _, _, _)
plan_modern_assets(f, objects, keys, dls) ==
    IF keys = <<>> THEN dls
    ELSE LET hash == objects[Head(keys)]
             path == modern_asset_path(hash)
         IN  plan_modern_assets(f, objects, Tail(keys),
                 IF ~path_exists(f, path)
                 THEN Append(dls, Download(asset_url(hash), path, FALSE))
                 ELSE dls)

collect_urls(f, os_type, ver, m, ast) ==
    LET path == client_path(ver)
        dls0 == IF ~path_exists(f, path)
                   \/ ~is_file_valid(f, path, m.downloads.client.sha1)
                THEN <<Download(m.downloads.client.url, path, FALSE)>>
                ELSE <<>>
        r    == plan_libraries(f, os_type, m.libraries, dls0)
        asset_id == m.asset_index.id
        keys == ObjectKeys(ast.objects)
    IN  IF ~r.ok THEN r
        ELSE IF ~ast.ok THEN Err("AssetIndex")
        ELSE IF asset_id = "pre-1.6" \/ asset_id = "legacy"
             THEN Ok(plan_legacy_assets(f, ast.objects, keys, r.downloads))
             ELSE Ok(plan_modern_assets(f, ast.objects, keys, r.downloads))

\* nizziel::blocking::download(url, &path, false) of the asset index stores
\* the index at path; it runs only when the library loop did not fail.
fs_after_collect(f, os_type, m, ast) ==
    IF plan_libraries(f, os_type, m.libraries, <<>>).ok /\ ast.ok
    THEN [f EXCEPT ![asset_index_path(m.asset_index.id)] = IndexDigest]
    ELSE f


----------------------------------------------------------------------------
(* Manifest resolver *)

NoCache == [some |-> FALSE, meta |-> Meta("", <<>>, "")]

Cached(m) == [some |-> TRUE, meta |-> m]

\* the manifest is parsed from the cache file <meta>/net.minecraft/<id>.json
\* when that file opens, and from the download of version.url otherwise
Vanilla_new(ver, cached, remote) ==
    [version |-> ver, meta |-> IF cached.some THEN cached.meta ELSE remote]

----------------------------------------------------------------------------
(* File-system states the planner is run on *)

Corrupt == <<"00", "00">>

EmptyFs == [p \in FsPaths |-> Absent]

\* every file the manifest and the asset index name is stored with the
\* digest they expect
ValidFs(m, ast) ==
    [p \in FsPaths |->
        IF \E id \in VersionIds : p = client_path(id) THEN m.downloads.client.sha1
        ELSE IF \E a \in {ArtA, ArtB} : p = library_path(a)
             THEN (CHOOSE a \in {ArtA, ArtB} : p = library_path(a)).sha1
        ELSE IF \E h \in Digests : p = modern_asset_path(h)
             THEN CHOOSE h \in Digests : p = modern_asset_path(h)
        ELSE IF \E k \in DOMAIN ast.objects : p = legacy_asset_path(k)
             THEN ast.objects[CHOOSE k \in DOMAIN ast.objects : p = legacy_asset_path(k)]
        ELSE Absent]

DeviantPaths ==
    { client_path("1.16.4"), library_path(ArtA),
      modern_asset_path(<<"aa", "11">>), legacy_asset_path("icons/icon.png") }

FsStates(m, ast) ==
    {EmptyFs, ValidFs(m, ast)}
    \cup {[ValidFs(m, ast) EXCEPT ![p] = c] : p \in DeviantPaths, c \in {Absent, Corrupt}}

ObjectMaps ==
    { <<>>,
      [k \in {"icons/icon.png"} |-> <<"aa", "11">>],
      [k \in AssetKeys |-> <<"aa", "11">>],
      [k \in AssetKeys |-> IF k = "icons/icon.png" THEN <<"aa", "11">> ELSE <<"bb", "33">>] }

AssetIndexResults == {AssetIndexFailed} \cup {AssetsOf(o) : o \in ObjectMaps}

\* Component records of the installation state; a name with no record maps
\* to NoComponent.
ComponentNames == {"java", "net.minecraft", "net.fabricmc"}

NoComponent == [kind |-> "absent", path |-> "", arguments |-> <<>>, version |-> ""]

\* Component::JavaComponent { path, arguments }: arguments is <<>> for None
\* and <<a>> for Some(a)
JavaComponent(path, arguments) ==
    [kind |-> "JavaComponent", path |-> path, arguments |-> arguments, version |-> ""]

\* Component::GameComponent { version }
GameComponent(ver) ==
    [kind |-> "GameComponent", path |-> "", arguments |-> <<>>, version |-> ver]

NoState == [n \in ComponentNames |-> NoComponent]

\* the natives directory: whether it exists, and the kind of each entry
NativeNames ==
    {"lwjgl.dll", "OpenAL32.DLL", "liblwjgl.so", "README", "META-INF", "stale"}

NoNativesDir == [exists |-> FALSE, entries |-> [n \in NativeNames |-> "none"]]

NativesDir(entries) == [exists |-> TRUE, entries |-> entries]

NoInput == [kind |-> "none"]

----------------------------------------------------------------------------
(* SpecPlan: collect_urls on every manifest, asset index and file system   *)
(* of the bounded sets, followed by a fetch that stores every planned      *)
(* file, followed by planning again.                                       *)

InitPlan ==
    /\ os \in OsTypes
    /\ version = "1.16.4"
    /\ \E libs \in SeqsUpTo(PlanLibraries, MaxLibs), aid \in AssetIds :
           meta = Vanilla_new(version, NoCache, Meta(version, libs, aid)).meta
    /\ assets \in AssetIndexResults
    /\ fs \in FsStates(meta, assets)
    /\ natives = NoNativesDir
    /\ state = NoState
    /\ disk = NoState
    /\ plan = Err("none")
    /\ tasks = <<>>
    /\ snap = [natives |-> natives, fs |-> fs]
    /\ cleaned = {}
    /\ result = "none"
    /\ pc = "idle"
    /\ inp = NoInput
    /\ out = <<>>

CollectUrls ==
    /\ pc = "idle"
    /\ plan' = collect_urls(fs, os, version, meta, assets)
    /\ fs' = fs_after_collect(fs, os, meta, assets)
    /\ pc' = "planned"
    /\ UNCHANGED <<os, version, meta, assets, natives, state, disk, tasks, snap,
                   cleaned, result, inp, out>>

\* the fetch engine stores, at each planned destination that is a file, the
\* file the manifest names
fs_after_fetch(f, dls, m, ast) ==
    [p \in FsPaths |->
        IF \E i \in 1..Len(dls) : ~dls[i].unzip /\ dls[i].path = p
        THEN ValidFs(m, ast)[p] ELSE f[p]]

Fetched ==
    /\ pc = "planned"
    /\ plan.ok
    /\ fs' = fs_after_fetch(fs, plan.downloads, meta, assets)
    /\ pc' = "idle"
    /\ UNCHANGED <<os, version, meta, assets, natives, state, disk, plan, tasks,
                   snap, cleaned, result, inp, out>>

NextPlan == CollectUrls \/ Fetched

SpecPlan == InitPlan /\ [][NextPlan]_vars


----------------------------------------------------------------------------
(* Claims about the planner (SpecPlan) *)

IsLegacy(m) == m.asset_index.id \in {"pre-1.6", "legacy"}

LibraryArtifacts(m) ==
    {m.libraries[i].downloads.artifact : i \in 1..Len(m.libraries)}
        \ {NoArtifact}

\* the digests the manifest and the asset index expect at path p
ExpectedAt(ver, m, ast, p) ==
    {m.downloads.client.sha1 : x \in {q \in {client_path(ver)} : q = p}}
    \cup {a.sha1 : a \in {b \in LibraryArtifacts(m) : library_path(b) = p}}
    \cup {ast.objects[k] : k \in {j \in DOMAIN ast.objects :
            IF IsLegacy(m) THEN legacy_asset_path(j) = p
                           ELSE modern_asset_path(ast.objects[j]) = p}}

\* the client jar path, each library artifact path and each asset destination
Destinations(ver, m, ast) ==
    {p \in FsPaths : ExpectedAt(ver, m, ast, p) # {}}

PresentValid(f, ver, m, ast, p) ==
    f[p] # Absent /\ f[p] \in ExpectedAt(ver, m, ast, p)

FullyInstalled(f, ver, m, ast) ==
    \A p \in Destinations(ver, m, ast) :
        f[p] # Absent /\ ExpectedAt(ver, m, ast, p) = {f[p]}

Count(dls, p) == Cardinality({i \in 1..Len(dls) : dls[i].path = p})

IsNativeTask(t) == t.unzip /\ t.path = paths_get("natives")

Planned == pc = "planned" /\ plan.ok

\* C1 (as stated): on a fully installed instance collect_urls returns a plan
\* with no tasks.
C1_FullyInstalledEmptyPlan ==
    (Planned /\ assets.ok /\ FullyInstalled(fs, version, meta, assets))
        => plan.downloads = <<>>

\* C1 (amended): a plan returned by collect_urls never holds a file
\* destination that is present and digest-valid, and on a fully installed
\* instance it holds nothing but the native-bundle tasks (unzip, destination
\* the natives directory), which are planned again on every run.
C1_ReplanOnlyNatives ==
    Planned =>
        /\ \A i \in 1..Len(plan.downloads) :
              \/ IsNativeTask(plan.downloads[i])
              \/ ~PresentValid(fs, version, meta, assets, plan.downloads[i].path)
        /\ FullyInstalled(fs, version, meta, assets)
              => \A i \in 1..Len(plan.downloads) : IsNativeTask(plan.downloads[i])

\* a fully installed instance with a library artifact and assets whose plan
\* still holds a native-bundle task
C1_Witness ==
    /\ Planned
    /\ FullyInstalled(fs, version, meta, assets)
    /\ LibraryArtifacts(meta) # {}
    /\ DOMAIN assets.objects # {}
    /\ plan.downloads # <<>>
    /\ fs[asset_index_path(meta.asset_index.id)] # Absent

\* C2: every absent destination (client jar, library artifact, asset in the
\* legacy and in the modern layout) is the destination of exactly one task
\* of the plan.
C2_AbsentPlannedOnce ==
    Planned =>
        \A p \in Destinations(version, meta, assets) :
            fs[p] = Absent => Count(plan.downloads, p) = 1

\* C6: the tasks of a plan have pairwise distinct destination paths.
C6_DistinctDestinations ==
    Planned =>
        \A i, j \in 1..Len(plan.downloads) :
            i # j => plan.downloads[i].path # plan.downloads[j].path


----------------------------------------------------------------------------
(* Installation state *)

\* create_state with the insert of the "java" record left out
create_state_without_java(st, ver) ==
    [st EXCEPT !["net.minecraft"] = GameComponent(ver)]

create_state(st, ver) ==
    [st EXCEPT !["java"] = JavaComponent("java", <<>>),
               !["net.minecraft"] = GameComponent(ver)]

\* State::write(path): the whole map is serialized to the instance root
state_write(st) == st

----------------------------------------------------------------------------
(* Fetch engine (nizziel::download) and the native-cleanup pass *)

Workers == 10

Queued == [st |-> "queued", failures |-> 0]

AllDone(ts) == \A i \in 1..Len(ts) : ts[i].st = "done"

SomeFailed(ts) == \E i \in 1..Len(ts) : ts[i].st = "failed"

Running(ts) == {i \in 1..Len(ts) : ts[i].st = "running"}

\* Entries a native bundle unpacks into the natives directory.
ArchiveEntries ==
    [n \in NativeNames |->
        CASE n = "lwjgl.dll"   -> "file"
          [] n = "liblwjgl.so" -> "file"
          [] n = "META-INF"    -> "dir"
          [] OTHER             -> "none"]

extract(nat) ==
    NativesDir([n \in NativeNames |->
        IF ArchiveEntries[n] # "none" THEN ArchiveEntries[n] ELSE nat.entries[n]])

\* Path::extension of an entry name; "" stands for None
extension(name) ==
    CASE name = "lwjgl.dll"    -> "dll"
      [] name = "OpenAL32.DLL" -> "DLL"
      [] name = "liblwjgl.so"  -> "so"
      [] OTHER                 -> ""

\* `download(dls).await.unwrap()` with the error dropped instead of unwrapped
block_on_ignoring_error(ts) == "cleanup"

\* rt.block_on(async move { download(dls).await.unwrap(); }): the unwrap
\* panics when the batch failed
block_on(ts) == IF SomeFailed(ts) THEN "panic" ELSE "cleanup"

\* the cleanup of one entry with files that have no extension kept
clean_entry_keeping_no_extension(kind, name) ==
    IF kind = "file"
    THEN (IF extension(name) # "" /\ extension(name) # "dll" THEN "none" ELSE kind)
    ELSE IF kind = "dir" THEN "none" ELSE kind

\* what the loop body leaves of a directory entry: a file is removed unless
\* its extension is "dll", a directory is removed, anything else is kept
clean_entry(kind, name) ==
    IF kind = "file"
    THEN (IF extension(name) = "" \/ extension(name) # "dll" THEN "none" ELSE kind)
    ELSE IF kind = "dir" THEN "none" ELSE kind


----------------------------------------------------------------------------
(* Spec: DownloadSequence::download on a small family of instances        *)

LwjglWithNatives ==
    Lib("lwjgl", ArtA,
        [windows |-> "natives-windows", linux |-> "natives-linux", macos |-> ""],
        Classifiers({"natives-windows", "natives-linux"}), <<>>)

InitialNatives ==
    { NoNativesDir,
      NativesDir(NoNativesDir.entries),
      NativesDir([n \in NativeNames |->
          CASE n \in {"lwjgl.dll", "OpenAL32.DLL", "README"} -> "file"
            [] n = "stale" -> "dir"
            [] OTHER -> "none"]),
      NativesDir([n \in NativeNames |->
          CASE n = "lwjgl.dll" -> "dir"
            [] n = "stale" -> "other"
            [] n = "liblwjgl.so" -> "file"
            [] OTHER -> "none"]) }

InitialStates ==
    { NoState,
      [NoState EXCEPT !["java"] = JavaComponent("/usr/bin/java", <<"-Xmx2G">>),
                      !["net.minecraft"] = GameComponent("1.16.4")],
      [NoState EXCEPT !["net.minecraft"] = GameComponent("1.16.3"),
                      !["net.fabricmc"] = GameComponent("0.11.3")] }

Init ==
    /\ os \in {"windows", "freebsd"}
    /\ version = "1.16.4"
    /\ \E libs \in {<<>>, <<LwjglWithNatives>>}, aid \in {"legacy", "1.16"} :
           meta = Vanilla_new(version, NoCache, Meta(version, libs, aid)).meta
    /\ assets \in {AssetIndexFailed, AssetsOf([k \in {"icons/icon.png"} |-> <<"aa", "11">>])}
    /\ fs \in {EmptyFs, ValidFs(meta, assets)}
    /\ natives \in InitialNatives
    /\ state \in InitialStates
    /\ disk = state
    /\ plan = Err("none")
    /\ tasks = <<>>
    /\ snap = [natives |-> natives, fs |-> fs]
    /\ cleaned = {}
    /\ result = "none"
    /\ pc = "start"
    /\ inp = NoInput
    /\ out = <<>>

\* self.create_state()?
CreateState ==
    /\ pc = "start"
    /\ state' = create_state(state, version)
    /\ pc' = "write"
    /\ UNCHANGED <<os, version, meta, assets, fs, natives, disk, plan, tasks, snap,
                   cleaned, result, inp, out>>

\* self.state().write(self.paths().get("instance")?)?
WriteState ==
    /\ pc = "write"
    /\ \/ disk' = state_write(state) /\ pc' = "collect" /\ UNCHANGED result
       \/ result' = "Err" /\ pc' = "returned" /\ UNCHANGED disk
    /\ UNCHANGED <<os, version, meta, assets, fs, natives, state, plan, tasks, snap,
                   cleaned, inp, out>>

\* let urls = self.collect_urls()?
Collect ==
    /\ pc = "collect"
    /\ plan' = collect_urls(fs, os, version, meta, assets)
    /\ fs' = fs_after_collect(fs, os, meta, assets)
    /\ IF plan'.ok
       THEN pc' = "spawn" /\ UNCHANGED result
       ELSE pc' = "returned" /\ result' = "Err"
    /\ UNCHANGED <<os, version, meta, assets, natives, state, disk, tasks, snap,
                   cleaned, inp, out>>

\* spawn_thread: the runtime is built and block_on starts the batch
SpawnThread ==
    /\ pc = "spawn"
    /\ \/ /\ tasks' = [i \in 1..Len(plan.downloads) |-> Queued]
          /\ pc' = "fetch"
          /\ UNCHANGED result
       \/ result' = "Err" /\ pc' = "returned" /\ UNCHANGED tasks
    /\ UNCHANGED <<os, version, meta, assets, fs, natives, state, disk, plan, snap,
                   cleaned, inp, out>>

\* a worker takes a queued task; after a terminal failure the rest of the
\* queue is abandoned
StartTask(i) ==
    /\ pc = "fetch"
    /\ tasks[i].st = "queued"
    /\ ~SomeFailed(tasks)
    /\ Cardinality(Running(tasks)) < Workers
    /\ tasks' = [tasks EXCEPT ![i].st = "running"]
    /\ UNCHANGED <<os, version, meta, assets, fs, natives, state, disk, plan, snap,
                   cleaned, result, pc, inp, out>>

\* the task's file is stored, or its archive unpacked into the natives
\* directory
TaskSucceeds(i) ==
    /\ pc = "fetch"
    /\ tasks[i].st = "running"
    /\ tasks' = [tasks EXCEPT ![i] = [st |-> "done", failures |-> 0]]
    /\ IF plan.downloads[i].unzip
       THEN natives' = extract(natives) /\ UNCHANGED fs
       ELSE /\ fs' = [fs EXCEPT ![plan.downloads[i].path] =
                                    ValidFs(meta, assets)[plan.downloads[i].path]]
            /\ UNCHANGED natives
    /\ UNCHANGED <<os, version, meta, assets, state, disk, plan, snap, cleaned,
                   result, pc, inp, out>>

\* an attempt fails: it is retried until the retry budget is spent
AttemptFails(i) ==
    /\ pc = "fetch"
    /\ tasks[i].st = "running"
    /\ tasks' = [tasks EXCEPT ![i] =
                    IF tasks[i].failures + 1 >= plan.retries
                    THEN [st |-> "failed", failures |-> 0]
                    ELSE [st |-> "running", failures |-> tasks[i].failures + 1]]
    /\ UNCHANGED <<os, version, meta, assets, fs, natives, state, disk, plan, snap,
                   cleaned, result, pc, inp, out>>

\* a failure that is not retried
NonRetryable(i) ==
    /\ pc = "fetch"
    /\ tasks[i].st = "running"
    /\ tasks' = [tasks EXCEPT ![i] = [st |-> "failed", failures |-> 0]]
    /\ UNCHANGED <<os, version, meta, assets, fs, natives, state, disk, plan, snap,
                   cleaned, result, pc, inp, out>>

\* block_on returns once the batch has succeeded or has failed
BlockOnReturns ==
    /\ pc = "fetch"
    /\ AllDone(tasks) \/ SomeFailed(tasks)
    /\ IF block_on(tasks) = "panic"
       THEN result' = "panic" /\ pc' = "returned" /\ UNCHANGED <<snap, cleaned>>
       ELSE /\ pc' = "cleanup"
            /\ snap' = [natives |-> natives, fs |-> fs]
            /\ cleaned' = {}
            /\ UNCHANGED result
    /\ UNCHANGED <<os, version, meta, assets, fs, natives, state, disk, plan, tasks,
                   inp, out>>

\* if Path::exists(natives_dir) is false, Ok(()) is returned at once
CleanupSkipped ==
    /\ pc = "cleanup"
    /\ ~natives.exists
    /\ result' = "Ok"
    /\ pc' = "returned"
    /\ UNCHANGED <<os, version, meta, assets, fs, natives, state, disk, plan, tasks,
                   snap, cleaned, inp, out>>

Listed(e) == snap.natives.entries[e] # "none"

\* one iteration of the loop over fs::read_dir(natives_dir)
CleanEntry(e) ==
    /\ pc = "cleanup"
    /\ natives.exists
    /\ Listed(e) /\ e \notin cleaned
    /\ cleaned' = cleaned \cup {e}
    /\ natives' = [natives EXCEPT !.entries[e] = clean_entry(natives.entries[e], e)]
    /\ UNCHANGED <<os, version, meta, assets, fs, state, disk, plan, tasks, snap,
                   result, pc, inp, out>>

\* fs::remove_file(path)? or fs::remove_dir_all(path)? fails
RemoveFails(e) ==
    /\ pc = "cleanup"
    /\ natives.exists
    /\ Listed(e) /\ e \notin cleaned
    /\ clean_entry(natives.entries[e], e) # natives.entries[e]
    /\ result' = "Err"
    /\ pc' = "returned"
    /\ UNCHANGED <<os, version, meta, assets, fs, natives, state, disk, plan, tasks,
                   snap, cleaned, inp, out>>

\* the loop has visited every entry: Ok(())
CleanupDone ==
    /\ pc = "cleanup"
    /\ natives.exists
    /\ \A e \in NativeNames : Listed(e) => e \in cleaned
    /\ result' = "Ok"
    /\ pc' = "returned"
    /\ UNCHANGED <<os, version, meta, assets, fs, natives, state, disk, plan, tasks,
                   snap, cleaned, inp, out>>

Next ==
    \/ CreateState
    \/ WriteState
    \/ Collect
    \/ SpawnThread
    \/ \E i \in 1..Len(tasks) : StartTask(i)
    \/ \E i \in 1..Len(tasks) : TaskSucceeds(i)
    \/ \E i \in 1..Len(tasks) : AttemptFails(i)
    \/ \E i \in 1..Len(tasks) : NonRetryable(i)
    \/ BlockOnReturns
    \/ CleanupSkipped
    \/ \E e \in NativeNames : CleanEntry(e)
    \/ \E e \in NativeNames : RemoveFails(e)
    \/ CleanupDone

Spec == Init /\ [][Next]_vars


----------------------------------------------------------------------------
(* Claims about the download sequence (Spec) *)

Removed(before, after) ==
    {e \in NativeNames : before.entries[e] # "none" /\ after.entries[e] = "none"}

\* C3: when a task of the batch has terminally failed, the fetch step
\* returns an error value to its caller (not Ok, and no abnormal end).
C3_FailureReturnsErr ==
    (pc = "returned" /\ SomeFailed(tasks)) => result = "Err"

\* C4: the native-cleanup pass starts only after every task of the batch
\* has succeeded, and an entry of the natives directory is deleted only
\* then: never while a task is queued or in flight, never after a failure.
C4_CleanupAfterAllSucceeded ==
    /\ [](pc = "cleanup" => AllDone(tasks))
    /\ [][Removed(natives, natives') # {} => (pc = "cleanup" /\ AllDone(tasks))]_vars

\* a batch of several tasks has succeeded and the cleanup has deleted an entry
C4_Witness ==
    /\ pc = "cleanup"
    /\ Len(tasks) >= 2
    /\ Removed(snap.natives, natives) # {}

HasBothRecords(d, ver) ==
    /\ d["java"].kind = "JavaComponent"
    /\ d["net.minecraft"] = GameComponent(ver)

\* C5: download() rebuilds the state with a "java" record and a
\* "net.minecraft" record of the resolved version and writes it before
\* planning and before any fetch task starts; after a successful download
\* the persisted state holds both, and create_state leaves it unchanged.
C5_StateWrittenBeforePlanning ==
    (\/ pc \in {"collect", "spawn", "fetch", "cleanup"}
     \/ (pc = "returned" /\ result = "Ok")
     \/ \E i \in 1..Len(tasks) : tasks[i].st # "queued")
        => /\ HasBothRecords(disk, version)
           /\ disk = state
           /\ create_state(state, version) = state

\* a successful download of an instance whose state had no "java" record
\* and another game version
C5_Witness ==
    /\ pc = "returned" /\ result = "Ok"
    /\ Len(tasks) > 0
    /\ disk["net.fabricmc"].kind # "absent"
    /\ HasBothRecords(disk, version)

\* C7: after spawn_thread returns Ok the natives directory, if it exists,
\* holds no regular file whose extension is not "dll" and no subdirectory;
\* the "dll" files it held when the cleanup began are still there, and no
\* file outside the natives directory has been deleted.
C7_NativesCleanAfterOk ==
    (pc = "returned" /\ result = "Ok") =>
        /\ natives.exists =>
              \A e \in NativeNames :
                  /\ natives.entries[e] # "dir"
                  /\ natives.entries[e] = "file" => extension(e) = "dll"
        /\ \A e \in NativeNames :
              (snap.natives.entries[e] = "file" /\ extension(e) = "dll")
                  => natives.entries[e] = "file"
        /\ natives.exists = snap.natives.exists
        /\ fs = snap.fs

\* Ok after a cleanup that met a dll file, a file with another extension, a
\* file with no extension and a subdirectory
C7_Witness ==
    /\ pc = "returned" /\ result = "Ok"
    /\ Len(tasks) > 0
    /\ \E e \in NativeNames : snap.natives.entries[e] = "file" /\ extension(e) = "dll"
    /\ \E e \in NativeNames : snap.natives.entries[e] = "file" /\ extension(e) = ""
    /\ \E e \in NativeNames :
          snap.natives.entries[e] = "file" /\ extension(e) \notin {"", "dll"}
    /\ \E e \in NativeNames : snap.natives.entries[e] = "dir"


----------------------------------------------------------------------------
(* Launch-argument builder: get_classpath *)

\* the test of one rule with "osx" compared as it is written
rule_excludes_unnormalized(rule, os_type) ==
    IF rule.os.some /\ rule.os.name # ""
    THEN \/ rule.action = "allow" /\ rule.os.name # os_type
         \/ rule.action = "disallow" /\ rule.os.name = os_type
    ELSE FALSE

\* the test of one rule inside `for rule in rules`: TRUE is `continue 'outer`
rule_excludes(rule, os_type) ==
    IF rule.os.some /\ rule.os.name # ""
    THEN LET os_name == IF rule.os.name = "osx" THEN "macos" ELSE rule.os.name
         IN  \/ rule.action = "allow" /\ os_name # os_type
             \/ rule.action = "disallow" /\ os_name = os_type
    ELSE FALSE

RECURSIVE rules_exclude(_, _)
rules_exclude(rules, os_type) ==
    IF rules = <<>> THEN FALSE
    ELSE IF rule_excludes(Head(rules), os_type) THEN TRUE
    ELSE rules_exclude(Tail(rules), os_type)

RECURSIVE classpath_libraries(_, _)
classpath_libraries(libs, os_type) ==
    IF libs = <<>> THEN <<>>
    ELSE LET lib == Head(libs)
             rest == classpath_libraries(Tail(libs), os_type)
         IN  IF rules_exclude(lib.rules, os_type) THEN rest
             ELSE IF lib.downloads.artifact.some
                  THEN <<library_path(lib.downloads.artifact)>> \o rest
                  ELSE rest

\* the classpath as the sequence of its entries; the last one is the client
\* jar, named after meta.id
get_classpath(m, os_type) ==
    Append(classpath_libraries(m.libraries, os_type), client_path(m.id))

----------------------------------------------------------------------------
(* SpecClasspath: a successful download followed by get_classpath          *)

RuleLists ==
    { <<>>,
      <<Rule("allow", NoOs)>>,
      <<Rule("allow", Os("windows"))>>,
      <<Rule("allow", Os("osx"))>>,
      <<Rule("disallow", Os("macos"))>>,
      <<Rule("allow", NoOs), Rule("disallow", Os("osx"))>>,
      <<Rule("disallow", Os("linux")), Rule("allow", Os(""))>> }

ClasspathLibraries ==
    {Lib("lib", a, NoNatives, NoClassifiers, r) :
        a \in {NoArtifact, ArtA, ArtB}, r \in RuleLists}

InitClasspath ==
    /\ os \in OsTypes
    /\ version = "1.16.4"
    /\ \E libs \in SeqsUpTo(ClasspathLibraries, MaxLibs), id \in VersionIds :
          \E cached \in {NoCache, Cached(Meta(id, libs, "1.16"))} :
              meta = Vanilla_new(version, cached, Meta(version, libs, "1.16")).meta
    /\ assets = AssetsOf(<<>>)
    /\ fs \in {EmptyFs, ValidFs(meta, assets)}
    /\ natives = NoNativesDir
    /\ state = NoState
    /\ disk = NoState
    /\ plan = Err("none")
    /\ tasks = <<>>
    /\ snap = [natives |-> natives, fs |-> fs]
    /\ cleaned = {}
    /\ result = "none"
    /\ pc = "idle"
    /\ inp = NoInput
    /\ out = <<>>

\* download() that returns Ok: the plan is made and every task succeeds
DownloadOk ==
    /\ pc = "idle"
    /\ plan' = collect_urls(fs, os, version, meta, assets)
    /\ plan'.ok
    /\ snap' = [natives |-> natives, fs |-> fs]
    /\ fs' = fs_after_fetch(fs_after_collect(fs, os, meta, assets),
                            plan'.downloads, meta, assets)
    /\ state' = create_state(state, version)
    /\ disk' = state_write(state')
    /\ result' = "Ok"
    /\ pc' = "installed"
    /\ UNCHANGED <<os, version, meta, assets, natives, tasks, cleaned, inp, out>>

GetClasspath ==
    /\ pc \in {"idle", "installed"}
    /\ out' = get_classpath(meta, os)
    /\ pc' = "launched"
    /\ UNCHANGED <<os, version, meta, assets, fs, natives, state, disk, plan, tasks,
                   snap, cleaned, result, inp>>

NextClasspath == DownloadOk \/ GetClasspath

SpecClasspath == InitClasspath /\ [][NextClasspath]_vars

----------------------------------------------------------------------------
(* Claims about get_classpath (SpecClasspath) *)

NormalizedOs(name) == IF name = "osx" THEN "macos" ELSE name

\* a rule that names an OS excludes when it allows another OS or disallows
\* the current one
Excludes(rule, os_type) ==
    /\ rule.os.some /\ rule.os.name # ""
    /\ \/ rule.action = "allow" /\ NormalizedOs(rule.os.name) # os_type
       \/ rule.action = "disallow" /\ NormalizedOs(rule.os.name) = os_type

Included(lib, os_type) ==
    /\ lib.downloads.artifact.some
    /\ \A i \in 1..Len(lib.rules) : ~Excludes(lib.rules[i], os_type)

IncludedLibraries(m, os_type) ==
    SelectSeq(m.libraries, LAMBDA lib : Included(lib, os_type))

\* C9: the classpath holds, in manifest order, the artifact path of exactly
\* the libraries that have an artifact and no excluding rule (a rule that
\* names no OS excludes nothing), followed by the client jar path as its
\* last entry; a library with no rules is included, a library whose only
\* rule is allow:windows is excluded on every other OS.
C9_ClasspathFiltering ==
    pc = "launched" =>
        LET inc == IncludedLibraries(meta, os)
        IN  /\ Len(out) = Len(inc) + 1
            /\ \A i \in 1..Len(inc) : out[i] = library_path(inc[i].downloads.artifact)
            /\ out[Len(out)] = client_path(meta.id)
            /\ \A i \in 1..Len(meta.libraries) :
                  LET lib == meta.libraries[i]
                      p   == library_path(lib.downloads.artifact)
                  IN  lib.downloads.artifact.some =>
                        /\ lib.rules = <<>>
                              => \E j \in 1..Len(inc) : out[j] = p
                        /\ (lib.rules = <<Rule("allow", Os("windows"))>>
                               /\ os # "windows"
                               /\ \A k \in 1..Len(meta.libraries) :
                                     meta.libraries[k].downloads.artifact = lib.downloads.artifact
                                         => meta.libraries[k].rules = lib.rules)
                              => \A j \in 1..Len(out) : out[j] # p

\* on macos, a library excluded by allow:windows before one included under
\* a rule list that names "osx"
C9_Witness ==
    /\ pc = "launched"
    /\ os = "macos"
    /\ Len(meta.libraries) = 2
    /\ meta.libraries[1].rules = <<Rule("allow", Os("windows"))>>
    /\ meta.libraries[1].downloads.artifact.some
    /\ meta.libraries[2].rules = <<Rule("allow", Os("osx"))>>
    /\ meta.libraries[2].downloads.artifact.some
    /\ Len(out) = 2

\* the digests the manifest expects at a path of the classpath
ClasspathExpected(m, p) ==
    {m.downloads.client.sha1 : x \in {q \in {client_path(m.id)} : q = p}}
    \cup {a.sha1 : a \in {b \in LibraryArtifacts(m) : library_path(b) = p}}

\* C10: after a successful download, every path of the classpath is a file
\* that was present and digest-valid or the destination of a task of the
\* plan, and the client jar entry is the destination the planner uses for
\* the client binary.
C10_ClasspathFilesPlanned ==
    (pc = "launched" /\ result = "Ok") =>
        /\ \A i \in 1..Len(out) :
              \/ snap.fs[out[i]] # Absent
                    /\ snap.fs[out[i]] \in ClasspathExpected(meta, out[i])
              \/ \E j \in 1..Len(plan.downloads) : plan.downloads[j].path = out[i]
        /\ out[Len(out)] = client_path(version)

----------------------------------------------------------------------------
(* Launch-argument builder: get_game_options                               *)
(*                                                                         *)
(* A string is a sequence of tokens: "$", "{", "}", the names of the       *)
(* placeholders, and pieces of other text.  No name contains "$", "{" or   *)
(* "}" and none is a prefix of another, so a placeholder occurs in the     *)
(* string exactly where its four tokens occur in the sequence.             *)

Placeholder(key) == <<"$", "{", key, "}">>

\* str::replace(from, to): every non-overlapping match, left to right
RECURSIVE replace(_, _, _)
replace(str, from, to) ==
    IF Len(str) < Len(from) THEN str
    ELSE IF SubSeq(str, 1, Len(from)) = from
         THEN to \o replace(SubSeq(str, Len(from) + 1, Len(str)), from, to)
         ELSE <<Head(str)>> \o replace(Tail(str), from, to)

\* Account::default()
DefaultAccount == [uuid |-> <<>>, access_token |-> <<>>]

\* Accounts::get(..)?.get_account(username).unwrap_or(Account::default())
get_account(accounts) == IF accounts.found THEN accounts.account ELSE DefaultAccount

\* the chain with its last replacement, of ${auth_session}, missing
substitute_without_auth_session(x, username, ver, assets_path, asset_index, account, type, game_assets) ==
    LET r1  == replace(x,   Placeholder("auth_player_name"), username)
        r2  == replace(r1,  Placeholder("version_name"), ver)
        r3  == replace(r2,  Placeholder("game_directory"), <<".">>)
        r4  == replace(r3,  Placeholder("assets_root"), assets_path)
        r5  == replace(r4,  Placeholder("assets_index_name"), asset_index)
        r6  == replace(r5,  Placeholder("auth_uuid"), account.uuid)
        r7  == replace(r6,  Placeholder("auth_access_token"), account.access_token)
        r8  == replace(r7,  Placeholder("user_type"), <<"mojang">>)
        r9  == replace(r8,  Placeholder("version_type"), type)
        r10 == replace(r9,  Placeholder("user_properties"), <<"{", "}">>)
        r11 == replace(r10, Placeholder("game_assets"), game_assets)
    IN  r11

\* the chain of replacements applied to one template string
substitute(x, username, ver, assets_path, asset_index, account, type, game_assets) ==
    LET r1  == replace(x,   Placeholder("auth_player_name"), username)
        r2  == replace(r1,  Placeholder("version_name"), ver)
        r3  == replace(r2,  Placeholder("game_directory"), <<".">>)
        r4  == replace(r3,  Placeholder("assets_root"), assets_path)
        r5  == replace(r4,  Placeholder("assets_index_name"), asset_index)
        r6  == replace(r5,  Placeholder("auth_uuid"), account.uuid)
        r7  == replace(r6,  Placeholder("auth_access_token"), account.access_token)
        r8  == replace(r7,  Placeholder("user_type"), <<"mojang">>)
        r9  == replace(r8,  Placeholder("version_type"), type)
        r10 == replace(r9,  Placeholder("user_properties"), <<"{", "}">>)
        r11 == replace(r10, Placeholder("game_assets"), game_assets)
        r12 == replace(r11, Placeholder("auth_session"), <<"{", "}">>)
    IN  r12

OptionsErr(e) == [ok |-> FALSE, err |-> e, args |-> <<>>]

\* st: the installation state; m: the manifest with its "game" templates
\* (arguments) and release type; accounts: the result of the account lookup
get_game_options(st, m, username, accounts) ==
    IF st["net.minecraft"].kind # "GameComponent"
    THEN OptionsErr("ComponentNotFound")
    ELSE IF ~m.arguments.some
    THEN OptionsErr("ArgumentsNotFound")
    ELSE LET ver         == <<st["net.minecraft"].version>>
             asset_index == <<m.asset_index.id>>
             game_assets == paths_get("resources")
             assets_path == paths_get("assets")
             account     == get_account(accounts)
         IN  [ok |-> TRUE, err |-> "",
              args |-> [i \in 1..Len(m.arguments.game) |->
                          substitute(m.arguments.game[i], username, ver, assets_path,
                                     asset_index, account, <<m.type>>, game_assets)]]

----------------------------------------------------------------------------
(* SpecOptions: get_game_options on bounded templates and values           *)

PlaceholderKeys ==
    <<"auth_player_name", "version_name", "game_directory", "assets_root",
      "assets_index_name", "auth_uuid", "auth_access_token", "user_type",
      "version_type", "user_properties", "game_assets", "auth_session">>

KnownKeys == SeqToSet(PlaceholderKeys)

\* what a template is put together from: the known placeholders, one the
\* builder does not know, stray "$" and "}", other text, and a placeholder
\* that is not closed
Pieces ==
    {Placeholder(k) : k \in KnownKeys}
    \cup { Placeholder("resolution_width"), <<"$">>, <<"}">>, <<"--width">>,
           <<"$", "{", "auth_player_name">> }

RECURSIVE Flatten(_)
Flatten(ss) == IF ss = <<>> THEN <<>> ELSE Head(ss) \o Flatten(Tail(ss))

Templates == {Flatten(ps) : ps \in SeqsUpTo(Pieces, MaxPieces)}

KnownAccount == [found |-> TRUE, account |-> [uuid |-> <<"uuid-1">>, access_token |-> <<"token-1">>]]

UnknownAccount == [found |-> FALSE, account |-> DefaultAccount]

Installed(ver) == [NoState EXCEPT !["java"] = JavaComponent("java", <<>>),
                                   !["net.minecraft"] = GameComponent(ver)]

\* username, account lookup, installation state, whether the manifest has
\* "game" templates
Profiles ==
    { [username |-> <<"Watson17">>, accounts |-> KnownAccount,
       state |-> Installed("1.16.3"), templates |-> TRUE],
      [username |-> <<"Watson17">>, accounts |-> UnknownAccount,
       state |-> Installed("1.16.4"), templates |-> TRUE],
      [username |-> Placeholder("auth_player_name"), accounts |-> KnownAccount,
       state |-> Installed("1.16.4"), templates |-> TRUE],
      [username |-> Placeholder("version_name"), accounts |-> UnknownAccount,
       state |-> Installed("1.16.3"), templates |-> TRUE],
      [username |-> <<"Watson17">>, accounts |-> KnownAccount,
       state |-> NoState, templates |-> TRUE],
      [username |-> <<"Watson17">>, accounts |-> KnownAccount,
       state |-> Installed("1.16.4"), templates |-> FALSE] }

OptionsMeta(templates, some) ==
    [id |-> "1.16.4", type |-> "release",
     asset_index |-> [id |-> "1.16"],
     arguments |-> [some |-> some, game |-> templates]]

InitOptions ==
    /\ os = "windows"
    /\ version = "1.16.4"
    /\ \E p \in Profiles :
       \E t \in IF p.state = NoState \/ ~p.templates THEN {<<>>} ELSE Templates :
          /\ inp = [kind |-> "options", username |-> p.username, accounts |-> p.accounts]
          /\ state = p.state
          /\ meta = OptionsMeta(IF p.templates THEN <<<<"--username">>, t>> ELSE <<>>,
                                p.templates)
    /\ assets = AssetsOf(<<>>)
    /\ fs = EmptyFs
    /\ natives = NoNativesDir
    /\ disk = state
    /\ plan = Err("none")
    /\ tasks = <<>>
    /\ snap = [natives |-> natives, fs |-> fs]
    /\ cleaned = {}
    /\ result = "none"
    /\ pc = "idle"
    /\ out = <<>>

GetGameOptions ==
    /\ pc = "idle"
    /\ LET r == get_game_options(state, meta, inp.username, inp.accounts)
       IN  /\ out' = r.args
           /\ result' = IF r.ok THEN "Ok" ELSE r.err
    /\ pc' = "built"
    /\ UNCHANGED <<os, version, meta, assets, fs, natives, state, disk, plan, tasks,
                   snap, cleaned, inp>>

NextOptions == GetGameOptions

SpecOptions == InitOptions /\ [][NextOptions]_vars


----------------------------------------------------------------------------
(* Claims about get_game_options (SpecOptions) *)

KnownPlaceholderAt(str, i) ==
    /\ i + 3 <= Len(str)
    /\ str[i] = "$" /\ str[i + 1] = "{" /\ str[i + 2] \in KnownKeys /\ str[i + 3] = "}"

NoKnownPlaceholder(str) == \A i \in 1..Len(str) : ~KnownPlaceholderAt(str, i)

\* the value each known placeholder stands for
ValueOf(key) ==
    CASE key = "auth_player_name"  -> inp.username
      [] key = "version_name"      -> <<state["net.minecraft"].version>>
      [] key = "game_directory"    -> <<".">>
      [] key = "assets_root"       -> <<"assets">>
      [] key = "assets_index_name" -> <<meta.asset_index.id>>
      [] key = "auth_uuid"         -> get_account(inp.accounts).uuid
      [] key = "auth_access_token" -> get_account(inp.accounts).access_token
      [] key = "user_type"         -> <<"mojang">>
      [] key = "version_type"      -> <<meta.type>>
      [] key = "user_properties"   -> <<"{", "}">>
      [] key = "game_assets"       -> <<"resources">>
      [] key = "auth_session"      -> <<"{", "}">>

\* the template with each known placeholder replaced by its value and all
\* other text kept, in one pass
RECURSIVE Substituted(_)
Substituted(str) ==
    IF str = <<>> THEN <<>>
    ELSE IF KnownPlaceholderAt(str, 1)
         THEN ValueOf(str[3]) \o Substituted(SubSeq(str, 5, Len(str)))
         ELSE <<Head(str)>> \o Substituted(Tail(str))

\* every "$" of the template opens a token ${name} that is closed before
\* the next "$"
WellFormed(str) ==
    \A i \in 1..Len(str) :
        str[i] = "$" =>
            /\ i + 1 <= Len(str) /\ str[i + 1] = "{"
            /\ \E j \in (i + 2)..Len(str) :
                  /\ str[j] = "}"
                  /\ \A k \in (i + 1)..(j - 1) : str[k] # "$"

\* no substituted value contains "$"
ValuesClean ==
    \A key \in KnownKeys : "$" \notin SeqToSet(ValueOf(key))

Built == pc = "built" /\ result = "Ok"

\* C8 (as stated): for every template list and all values, the result holds
\* no occurrence of a known placeholder; each is replaced by its value (the
\* player name by the username, the version name by the version in the
\* state) and all other text is unchanged.
C8_NoPlaceholderRemains ==
    Built =>
        \A i \in 1..Len(out) :
            /\ NoKnownPlaceholder(out[i])
            /\ out[i] = Substituted(meta.arguments.game[i])

\* C8 (amended): the same, for values that contain no "$" and templates in
\* which every "$" opens a token ${name} closed before the next "$".
C8_CleanSubstitution ==
    (Built /\ ValuesClean) =>
        \A i \in 1..Len(out) :
            WellFormed(meta.arguments.game[i]) =>
                /\ NoKnownPlaceholder(out[i])
                /\ out[i] = Substituted(meta.arguments.game[i])

\* a well-formed template with ${auth_player_name}, ${version_name} and a
\* placeholder the builder does not know, built for a state whose version
\* is not the manifest's
C8_Witness ==
    /\ Built /\ ValuesClean
    /\ state["net.minecraft"].version # meta.id
    /\ meta.arguments.game[2] =
          Placeholder("auth_player_name") \o Placeholder("resolution_width")
              \o Placeholder("version_name")
    /\ out[2] = <<"Watson17">> \o Placeholder("resolution_width") \o <<"1.16.3">>


====
